---- MODULE Spec2Model ----
(***************************************************************************)
(* Model of package try (src/try.go): panic-based error propagation        *)
(* helpers, deferred recovery helpers, and the concurrency wrappers.       *)
(*                                                                         *)
(* Values.  Every Go value the package handles (an error, a panic payload  *)
(* of type any) is a record [kind, s, n, kids]:                            *)
(*   nil            the nil interface value (nil error, panic(nil))        *)
(*   error          an opaque caller-made error, identified by s           *)
(*   errorString    the error fmt.Errorf makes from a format without %w    *)
(*   wrapError      the error fmt.Errorf makes with %w; kids = <<inner>>,  *)
(*                  s = the call-site annotation                           *)
(*   joinError      the error errors.Join makes; kids = its components     *)
(*   PanicNilError  the runtime error recover() yields for panic(nil)      *)
(*                  (go >= 1.21 runtime semantics)                         *)
(*   string, int    non-error panic payloads                               *)
(*   nopanic        "no panic in flight" / "function returns normally"     *)
(***************************************************************************)
EXTENDS FiniteSets, Integers, Sequences, TLC

\* ---------------------------------------------------------------- bounds
MaxN == 3          \* most functions handed to Async

MaxLiveN == 2      \* most functions handed to Async in the liveness runs

MaxDepth == 3      \* deepest call stack of protected functions

MaxOps == 2        \* most calls the client code makes in a run

\* ---------------------------------------------------------------- values
Val(k, str, num, ks) == [kind |-> k, s |-> str, n |-> num, kids |-> ks]

Nil == Val("nil", "", 0, <<>>)

NoPanic == Val("nopanic", "", 0, <<>>)

ErrVal(id) == Val("error", id, 0, <<>>)

StrVal(str) == Val("string", str, 0, <<>>)

IntVal(num) == Val("int", "", num, <<>>)

PanicNilError == Val("PanicNilError", "panic called with nil argument", 0, <<>>)

ErrorKinds == {"error", "errorString", "wrapError", "joinError", "PanicNilError"}

\* the type assertion err.(error) of toError
IsError(v) == v.kind \in ErrorKinds

Digit(d) ==
  CASE d = 0 -> "0" [] d = 1 -> "1" [] d = 2 -> "2" [] d = 3 -> "3"
    [] d = 4 -> "4" [] d = 5 -> "5" [] d = 6 -> "6" [] d = 7 -> "7"
    [] d = 8 -> "8" [] d = 9 -> "9"

RECURSIVE Itoa(_)
Itoa(num) == IF num < 10 THEN Digit(num) ELSE Itoa(num \div 10) \o Digit(num % 10)

\* fmt's %v of a non-error value
FormatV(v) ==
  CASE v.kind = "string" -> v.s
    [] v.kind = "int"    -> Itoa(v.n)
    [] v.kind = "nil"    -> "<nil>"
    [] OTHER             -> v.s

\* fmt.Errorf("%v", err): a new error carrying the formatted payload
Errorf_v(v) == Val("errorString", FormatV(v), 0, <<>>)

\* fmt.Errorf("%w\n\t%s:%d", err, file, line)
Errorf_w(e, loc) == Val("wrapError", loc, 0, <<e>>)

\* errors.Join(a, b): drops nil arguments, nil when none is left
Join(a, b) ==
  LET es == SelectSeq(<<a, b>>, LAMBDA e : e # Nil)
  IN  IF es = <<>> THEN Nil ELSE Val("joinError", "", 0, es)

\* toError formatting every payload, errors included
toError_AlwaysFormat(v) == Errorf_v(v)

toError(v) == IF IsError(v) THEN v ELSE Errorf_v(v)

\* joinErrors putting the new error first
joinErrors_Reversed(a, b) == IF a = Nil THEN b ELSE Join(b, a)

\* joinErrors keeping only the new error
joinErrors_Overwrite(a, b) == b

\* joinErrors without its nil test
joinErrors_AlwaysJoin(a, b) == Join(a, b)

joinErrors(a, b) == IF a = Nil THEN b ELSE Join(a, b)

\* the builtin panic(v): the payload that goes in flight (the go >= 1.21
\* runtime replaces a nil argument by a *runtime.PanicNilError)
gopanic(v) == IF v = Nil THEN PanicNilError ELSE v

\* the builtin recover() called directly by a deferred function while
\* payload p is in flight (NoPanic: none, recover returns nil)
recover(p) == IF p = NoPanic THEN Nil ELSE p

\* ------------------------------------------------- inspection of errors
\* the errors an error directly holds: Unwrap() []error of a joinError,
\* Unwrap() error of a wrapError
Components(e) ==
  IF e.kind \in {"joinError", "wrapError"} THEN e.kids ELSE <<>>

RECURSIVE Chain(_)
\* every error errors.Is can match in e's tree: e and, recursively, what
\* it unwraps to
Chain(e) ==
  IF e = Nil THEN {}
  ELSE {e} \cup UNION {Chain(e.kids[k]) : k \in 1..Len(Components(e))}

RECURSIVE Message(_)
\* e.Error(), as the sequence of its pieces: a wrapError made by checkErr
\* prints its inner error, "\n\t" and the call site; a joinError prints its
\* components separated by "\n"
Message(e) ==
  IF e.kind = "wrapError" THEN Message(e.kids[1]) \o <<"\n\t", e.s>>
  ELSE IF e.kind = "joinError"
       THEN IF Len(e.kids) = 2
            THEN Message(e.kids[1]) \o <<"\n">> \o Message(e.kids[2])
            ELSE Message(e.kids[1])
       ELSE <<e.s>>

RECURSIVE JoinLeaves(_)
\* the errors of e's tree of joins, left to right, as printed by Error()
JoinLeaves(e) ==
  IF e = Nil THEN <<>>
  ELSE IF e.kind = "joinError"
       THEN IF Len(e.kids) = 2 THEN JoinLeaves(e.kids[1]) \o JoinLeaves(e.kids[2])
            ELSE JoinLeaves(e.kids[1])
       ELSE <<e>>

\* ------------------------------------------------------------- Async
VARIABLES
  fns,          \* Async's arguments: what each function does when called
  apc,          \* position of the goroutine that called Async
  nexti,        \* the range loop's index
  wg,           \* sync.WaitGroup counter
  mxErr,        \* sync.Mutex: 0 when free, else the goroutine holding it
  err,          \* Async's named result, shared with the goroutines
  gpc,          \* position of each spawned goroutine
  inflight,     \* the panic in flight in each spawned goroutine
  r,            \* each goroutine's local r
  joined,       \* each goroutine's evaluated right-hand side of err = ...
  result,       \* what Async returned
  crashed,      \* a panic reached the top of a goroutine's stack
  mergeOrder,   \* history: goroutines in the order they stored into err
  finishOrder   \* history: goroutines in the order they called wg.Done

avars == <<fns, apc, nexti, wg, mxErr, err, gpc, inflight, r, joined, result,
           crashed, mergeOrder, finishOrder>>

VARIABLES
  stk,          \* call stack of each goroutine of the client program
  pan,          \* the panic in flight in each goroutine (NoPanic: none)
  origin,       \* history: the call that raised the panic in flight
  tstate,       \* "idle", "run", "returned", or "panicked" (a panic left
                \* the goroutine's outermost function)
  log,          \* what log.Printf was given, in order
  cbs,          \* the errors handed to Handle's callbacks, in order
  nops,         \* calls made by the client so far
  last,         \* history: the function activation that has just ended
  lastcall      \* history: the helper call that has just been made

fvars == <<stk, pan, origin, tstate, log, cbs, nops, last, lastcall>>

vars == <<avars, fvars>>

N == Len(fns)

G == 1..N

\* what function i of the argument list may do: return, or panic with an
\* error, a string, or nil
PanicsOf(i) ==
  { ErrVal("err" \o Itoa(i)), StrVal("boom" \o Itoa(i)), Nil }

OutcomesOf(i) == {NoPanic} \cup PanicsOf(i)

ArgLists(maxn) ==
  UNION { {f \in [1..len -> UNION {OutcomesOf(i) : i \in 1..len}] :
             \A i \in 1..len : f[i] \in OutcomesOf(i)} : len \in 0..maxn }

InitAsync(maxn) ==
  /\ fns \in ArgLists(maxn)
  /\ apc = "add"
  /\ nexti = 1
  /\ wg = 0
  /\ mxErr = 0
  /\ err = Nil
  /\ gpc = [i \in 1..Len(fns) |-> "unborn"]
  /\ inflight = [i \in 1..Len(fns) |-> NoPanic]
  /\ r = [i \in 1..Len(fns) |-> Nil]
  /\ joined = [i \in 1..Len(fns) |-> Nil]
  /\ result = Nil
  /\ crashed = FALSE
  /\ mergeOrder = <<>>
  /\ finishOrder = <<>>

\* wg.Add(len(fn))
AsyncAdd ==
  /\ apc = "add"
  /\ wg' = wg + N
  /\ apc' = "loop"
  /\ UNCHANGED <<fns, nexti, mxErr, err, gpc, inflight, r, joined, result,
                 crashed, mergeOrder, finishOrder>>

\* for _, f := range fn { go func(fn func()) {...}(f) }
AsyncSpawn ==
  /\ apc = "loop"
  /\ IF nexti <= N
     THEN /\ gpc' = [gpc EXCEPT ![nexti] = "fn"]
          /\ nexti' = nexti + 1
          /\ apc' = apc
     ELSE /\ apc' = "wait"
          /\ UNCHANGED <<gpc, nexti>>
  /\ UNCHANGED <<fns, wg, mxErr, err, inflight, r, joined, result, crashed,
                 mergeOrder, finishOrder>>

\* wg.Wait() that does not block
AsyncWait_NoBarrier ==
  /\ apc = "wait"
  /\ apc' = "return"
  /\ UNCHANGED <<fns, nexti, wg, mxErr, err, gpc, inflight, r, joined, result,
                 crashed, mergeOrder, finishOrder>>

\* wg.Wait(): blocks until the counter is zero
AsyncWait ==
  /\ apc = "wait"
  /\ wg = 0
  /\ apc' = "return"
  /\ UNCHANGED <<fns, nexti, wg, mxErr, err, gpc, inflight, r, joined, result,
                 crashed, mergeOrder, finishOrder>>

\* return (the named result err)
AsyncReturn ==
  /\ apc = "return"
  /\ result' = err
  /\ apc' = "returned"
  /\ UNCHANGED <<fns, nexti, wg, mxErr, err, gpc, inflight, r, joined, crashed,
                 mergeOrder, finishOrder>>

\* fn(): the supplied function returns or panics
GoFn(i) ==
  /\ gpc[i] = "fn"
  /\ inflight' = [inflight EXCEPT ![i] =
                    IF fns[i] = NoPanic THEN NoPanic ELSE gopanic(fns[i])]
  /\ gpc' = [gpc EXCEPT ![i] = "recover"]
  /\ UNCHANGED <<fns, apc, nexti, wg, mxErr, err, r, joined, result, crashed,
                 mergeOrder, finishOrder>>

\* the deferred closure without its mxErr.Lock() call
GoRecover_SkipLock(i) ==
  /\ gpc[i] = "recover"
  /\ r' = [r EXCEPT ![i] = recover(inflight[i])]
  /\ inflight' = [inflight EXCEPT ![i] = NoPanic]
  /\ gpc' = [gpc EXCEPT ![i] = IF r'[i] # Nil THEN "join" ELSE "done"]
  /\ UNCHANGED <<fns, apc, nexti, wg, mxErr, err, joined, result, crashed,
                 mergeOrder, finishOrder>>

\* the deferred closure: if r := recover(); r != nil
GoRecover(i) ==
  /\ gpc[i] = "recover"
  /\ r' = [r EXCEPT ![i] = recover(inflight[i])]
  /\ inflight' = [inflight EXCEPT ![i] = NoPanic]
  /\ gpc' = [gpc EXCEPT ![i] = IF r'[i] # Nil THEN "lock" ELSE "done"]
  /\ UNCHANGED <<fns, apc, nexti, wg, mxErr, err, joined, result, crashed,
                 mergeOrder, finishOrder>>

\* mxErr.Lock() that excludes no one
GoLock_NoMutex(i) ==
  /\ gpc[i] = "lock"
  /\ mxErr' = i
  /\ gpc' = [gpc EXCEPT ![i] = "join"]
  /\ UNCHANGED <<fns, apc, nexti, wg, err, inflight, r, joined, result, crashed,
                 mergeOrder, finishOrder>>

\* mxErr.Lock(): blocks while another goroutine holds the mutex
GoLock(i) ==
  /\ gpc[i] = "lock"
  /\ mxErr = 0
  /\ mxErr' = i
  /\ gpc' = [gpc EXCEPT ![i] = "join"]
  /\ UNCHANGED <<fns, apc, nexti, wg, err, inflight, r, joined, result, crashed,
                 mergeOrder, finishOrder>>

\* err = joinErrors(err, toError(r)): evaluation of the right-hand side
GoJoin(i) ==
  /\ gpc[i] = "join"
  /\ joined' = [joined EXCEPT ![i] = joinErrors(err, toError(r[i]))]
  /\ gpc' = [gpc EXCEPT ![i] = "store"]
  /\ UNCHANGED <<fns, apc, nexti, wg, mxErr, err, inflight, r, result, crashed,
                 mergeOrder, finishOrder>>

\* err = joinErrors(err, toError(r)): the assignment
GoStore(i) ==
  /\ gpc[i] = "store"
  /\ err' = joined[i]
  /\ mergeOrder' = Append(mergeOrder, i)
  /\ gpc' = [gpc EXCEPT ![i] = "unlock"]
  /\ UNCHANGED <<fns, apc, nexti, wg, mxErr, inflight, r, joined, result,
                 crashed, finishOrder>>

\* the closure returning without the deferred mxErr.Unlock()
GoUnlock_Missing(i) ==
  /\ gpc[i] = "unlock"
  /\ gpc' = [gpc EXCEPT ![i] = "done"]
  /\ UNCHANGED <<fns, apc, nexti, wg, mxErr, err, inflight, r, joined, result,
                 crashed, mergeOrder, finishOrder>>

\* defer mxErr.Unlock(), run when the closure returns
GoUnlock(i) ==
  /\ gpc[i] = "unlock"
  /\ mxErr' = 0
  /\ gpc' = [gpc EXCEPT ![i] = "done"]
  /\ UNCHANGED <<fns, apc, nexti, wg, err, inflight, r, joined, result, crashed,
                 mergeOrder, finishOrder>>

\* defer wg.Done(), the goroutine's last act; a panic still in flight here
\* leaves the goroutine and ends the process
GoDone(i) ==
  /\ gpc[i] = "done"
  /\ wg' = wg - 1
  /\ finishOrder' = Append(finishOrder, i)
  /\ crashed' = (crashed \/ inflight[i] # NoPanic)
  /\ gpc' = [gpc EXCEPT ![i] = "exited"]
  /\ UNCHANGED <<fns, apc, nexti, mxErr, err, inflight, r, joined, result,
                 mergeOrder>>

\* one step of the goroutine Async spawned for its i-th function
GoStep(i) ==
  /\ \/ GoFn(i)
     \/ GoRecover(i)
     \/ GoLock(i)
     \/ GoJoin(i)
     \/ GoStore(i)
     \/ GoUnlock(i)
     \/ GoDone(i)
  /\ UNCHANGED fvars

\* one step of the goroutine that called Async
AsyncStep ==
  /\ \/ AsyncAdd
     \/ AsyncSpawn
     \/ AsyncWait
     \/ AsyncReturn
  /\ UNCHANGED fvars

NextAsync == AsyncStep \/ \E i \in G : GoStep(i)

\* no Async call is in progress
IdleAsync ==
  /\ fns = <<>>
  /\ apc = "idle"
  /\ nexti = 1
  /\ wg = 0
  /\ mxErr = 0
  /\ err = Nil
  /\ gpc = <<>>
  /\ inflight = <<>>
  /\ r = <<>>
  /\ joined = <<>>
  /\ result = Nil
  /\ crashed = FALSE
  /\ mergeOrder = <<>>
  /\ finishOrder = <<>>

\* ------------------------------------- client code using the helpers
\* A client goroutine runs functions that may defer one recovery helper and
\* whose bodies call the propagation helpers, panic, call further functions,
\* Call or Go.  A stack frame:
\*   fn      "user" (client function) or "Call" (try.Call)
\*   helper  what the function deferred: "None", "Catch" (Catch(&err)),
\*           "CatchNil" (Catch(nil)), "Handle", "Mute"
\*   cb      what Handle's callback does: NoPanic (returns) or the payload
\*           it panics with
\*   slot    the error variable Catch's pointer designates (the function's
\*           named result err); slot0 its value when the body started
\*   pc      "body", "exit" (body over, deferred call pending), "ret"
\*   ops     calls the body has completed
\*   seen    history: the panic in flight when the deferred call started
\*   seenOp  history: the call that raised it
\*   logged, called   history: what the deferred call logged, and handed
\*           to the callback
T == 1..2

Op(name, e, b, vs) == [name |-> name, e |-> e, b |-> b, vs |-> vs]

NoOp == Op("none", Nil, TRUE, <<>>)

ErrArgs == {Nil, ErrVal("e1")}

Payloads == {Nil, ErrVal("e1"), StrVal("x"), IntVal(42)}

Values1 == {<<IntVal(7)>>, <<StrVal("v")>>}

Values2 == {<<IntVal(7), StrVal("v")>>, <<StrVal("v"), IntVal(8)>>}

Values3 == {<<IntVal(7), StrVal("v"), IntVal(8)>>,
            <<StrVal("v"), IntVal(8), IntVal(7)>>}

Slots == {Nil, ErrVal("prev")}

Callbacks == {NoPanic, StrVal("cb")}

NewFrame(fn, helper, slot0, cb) ==
  [fn |-> fn, helper |-> helper, cb |-> cb, slot0 |-> slot0, slot |-> slot0,
   pc |-> "body", ops |-> 0, seen |-> NoPanic, seenOp |-> NoOp,
   logged |-> <<>>, called |-> <<>>]

\* what a client function may defer, with the state the deferred call finds
Deferrables ==
  {<<"None", Nil, NoPanic>>, <<"Mute", Nil, NoPanic>>,
   <<"CatchNil", Nil, NoPanic>>}
    \cup {<<"Catch", s0, NoPanic>> : s0 \in Slots}
    \cup {<<"Handle", Nil, cb>> : cb \in Callbacks}

NoFrame ==
  [fn |-> "none", helper |-> "None", cb |-> NoPanic, slot0 |-> Nil,
   slot |-> Nil, pc |-> "none", ops |-> 0, seen |-> NoPanic, seenOp |-> NoOp,
   logged |-> <<>>, called |-> <<>>]

NoLast == [t |-> 0, f |-> NoFrame, escaped |-> NoPanic, depth |-> 0]

NoCall == [t |-> 0, op |-> NoOp, out |-> <<>>, raised |-> NoPanic, site |-> ""]

InitFrames ==
  /\ \E d \in Deferrables :
       stk = [t \in T |-> IF t = 1
                THEN <<[NoFrame EXCEPT !.fn = "user", !.helper = d[1],
                                       !.slot0 = d[2], !.slot = d[2],
                                       !.cb = d[3], !.pc = "body"]>>
                ELSE <<>>]
  /\ pan = [t \in T |-> NoPanic]
  /\ origin = [t \in T |-> NoOp]
  /\ tstate = [t \in T |-> IF t = 1 THEN "run" ELSE "idle"]
  /\ log = <<>>
  /\ cbs = <<>>
  /\ nops = 0
  /\ last = NoLast
  /\ lastcall = NoCall

\* no client code is running
IdleFrames ==
  /\ stk = [t \in T |-> <<>>]
  /\ pan = [t \in T |-> NoPanic]
  /\ origin = [t \in T |-> NoOp]
  /\ tstate = [t \in T |-> "idle"]
  /\ log = <<>>
  /\ cbs = <<>>
  /\ nops = 0
  /\ last = NoLast
  /\ lastcall = NoCall

Top(t) == stk[t][Len(stk[t])]

SetTop(t, f) == [stk EXCEPT ![t] = [@ EXCEPT ![Len(@)] = f]]

LibSite(line) == "try.go:" \o Itoa(line)

UserSite(depth, line) == "user.go:" \o Itoa(10 * depth + line)

\* the goroutine's call stack as runtime.Caller sees it: for each active
\* function, outermost first, the file:line it is executing
CallStack(t) ==
  [k \in 1..Len(stk[t]) |->
     IF stk[t][k].fn = "Call" THEN LibSite(90)
     ELSE UserSite(k, stk[t][k].ops + 1)]

\* runtime.Caller(skip) for the innermost function of call stack st
Caller(st, skip) == st[Len(st) - skip]

\* checkErr asking runtime.Caller for the frame one level above itself
checkErr_Caller1(e, st) ==
  IF e # Nil THEN Errorf_w(e, Caller(st, 1)) ELSE NoPanic

\* checkErr formatting err with %v in place of %w
checkErr_NoWrap(e, st) ==
  IF e # Nil THEN Val("errorString", e.s, 0, <<>>) ELSE NoPanic

\* checkErr(err), entered with call stack st (checkErr's own frame last):
\* the payload it panics with, NoPanic when it returns
checkErr(e, st) ==
  IF e # Nil THEN Errorf_w(e, Caller(st, 2)) ELSE NoPanic

\* the body of goroutine t's innermost function can make its next call
CanOp(t) ==
  /\ tstate[t] = "run"
  /\ Len(stk[t]) > 0
  /\ Top(t).pc = "body"
  /\ Top(t).fn = "user"
  /\ nops < MaxOps

\* a call made by the body is over: it panicked with q, or (q = NoPanic)
\* returned vs
FinishOp(t, op, q, vs) ==
  /\ IF q = NoPanic
     THEN /\ stk' = SetTop(t, [Top(t) EXCEPT !.ops = @ + 1])
          /\ UNCHANGED <<pan, origin>>
     ELSE /\ stk' = SetTop(t, [Top(t) EXCEPT !.pc = "exit"])
          /\ pan' = [pan EXCEPT ![t] = q]
          /\ origin' = [origin EXCEPT ![t] = [op EXCEPT !.vs = <<>>]]
  /\ nops' = nops + 1
  /\ lastcall' = [t |-> t, op |-> op, out |-> IF q = NoPanic THEN vs ELSE <<>>,
                  raised |-> q, site |-> CallStack(t)[Len(stk[t])]]
  /\ last' = NoLast
  /\ UNCHANGED <<tstate, log, cbs>>

\* func OK(err error)
OK(t, e) ==
  /\ CanOp(t)
  /\ FinishOp(t, Op("OK", e, TRUE, <<>>),
              checkErr(e, CallStack(t) \o <<LibSite(13), LibSite(137)>>), <<>>)

\* func Check(err error)
Check(t, e) ==
  /\ CanOp(t)
  /\ FinishOp(t, Op("Check", e, TRUE, <<>>),
              checkErr(e, CallStack(t) \o <<LibSite(18), LibSite(137)>>), <<>>)

\* func Val(v T, err error) T
Val1(t, v, e) ==
  /\ CanOp(t)
  /\ FinishOp(t, Op("Val", e, TRUE, v),
              checkErr(e, CallStack(t) \o <<LibSite(23), LibSite(137)>>),
              <<v[1]>>)

\* Val2 returning its values in the wrong positions
Val2_Swapped(t, v, e) ==
  /\ CanOp(t)
  /\ FinishOp(t, Op("Val2", e, TRUE, v),
              checkErr(e, CallStack(t) \o <<LibSite(29), LibSite(137)>>),
              <<v[2], v[1]>>)

\* func Val2(v1 T1, v2 T2, err error) (T1, T2)
Val2(t, v, e) ==
  /\ CanOp(t)
  /\ FinishOp(t, Op("Val2", e, TRUE, v),
              checkErr(e, CallStack(t) \o <<LibSite(29), LibSite(137)>>),
              <<v[1], v[2]>>)

\* func Val3(v1 T1, v2 T2, v3 T3, err error) (T1, T2, T3)
Val3(t, v, e) ==
  /\ CanOp(t)
  /\ FinishOp(t, Op("Val3", e, TRUE, v),
              checkErr(e, CallStack(t) \o <<LibSite(35), LibSite(137)>>),
              <<v[1], v[2], v[3]>>)

\* SafeVal checking its error as Val does
SafeVal_Checked(t, v, e) ==
  /\ CanOp(t)
  /\ FinishOp(t, Op("SafeVal", e, TRUE, v),
              checkErr(e, CallStack(t) \o <<LibSite(42), LibSite(137)>>),
              <<v[1]>>)

\* func SafeVal(v T, err error) T
SafeVal(t, v, e) ==
  /\ CanOp(t)
  /\ FinishOp(t, Op("SafeVal", e, TRUE, v), NoPanic, <<v[1]>>)

\* func SafeVal2(v1 T1, v2 T2, err error) (T1, T2)
SafeVal2(t, v, e) ==
  /\ CanOp(t)
  /\ FinishOp(t, Op("SafeVal2", e, TRUE, v), NoPanic, <<v[1], v[2]>>)

\* func SafeVal3(v1 T1, v2 T2, v3 T3, err error) (T1, T2, T3)
SafeVal3(t, v, e) ==
  /\ CanOp(t)
  /\ FinishOp(t, Op("SafeVal3", e, TRUE, v), NoPanic, <<v[1], v[2], v[3]>>)

\* Require with its test inverted
Require_Inverted(t, b, p) ==
  /\ CanOp(t)
  /\ FinishOp(t, Op("Require", p, b, <<>>),
              IF b
              THEN checkErr(toError(p),
                            CallStack(t) \o <<LibSite(60), LibSite(137)>>)
              ELSE NoPanic,
              <<>>)

\* func Require(statement bool, err any)
Require(t, b, p) ==
  /\ CanOp(t)
  /\ FinishOp(t, Op("Require", p, b, <<>>),
              IF ~b
              THEN checkErr(toError(p),
                            CallStack(t) \o <<LibSite(60), LibSite(137)>>)
              ELSE NoPanic,
              <<>>)

\* the client's own panic(p)
Panic(t, p) ==
  /\ CanOp(t)
  /\ FinishOp(t, Op("panic", p, TRUE, <<>>), gopanic(p), <<>>)

\* the client calls a function of its own that defers d
Enter(t, d) ==
  /\ CanOp(t)
  /\ Len(stk[t]) < MaxDepth
  /\ stk' = [stk EXCEPT ![t] = Append(@, NewFrame("user", d[1], d[2], d[3]))]
  /\ nops' = nops + 1
  /\ last' = NoLast
  /\ lastcall' = NoCall
  /\ UNCHANGED <<pan, origin, tstate, log, cbs>>

\* Call running fn() without deferring Catch(&err)
CallEnter_NoDefer(t) ==
  /\ CanOp(t)
  /\ Len(stk[t]) + 2 <= MaxDepth
  /\ stk' = [stk EXCEPT ![t] = @ \o <<NewFrame("Call", "None", Nil, NoPanic),
                                      NewFrame("user", "None", Nil, NoPanic)>>]
  /\ nops' = nops + 1
  /\ last' = NoLast
  /\ lastcall' = NoCall
  /\ UNCHANGED <<pan, origin, tstate, log, cbs>>

\* func Call(fn func()) (err error): defer Catch(&err), then fn()
CallEnter(t) ==
  /\ CanOp(t)
  /\ Len(stk[t]) + 2 <= MaxDepth
  /\ stk' = [stk EXCEPT ![t] = @ \o <<NewFrame("Call", "Catch", Nil, NoPanic),
                                      NewFrame("user", "None", Nil, NoPanic)>>]
  /\ nops' = nops + 1
  /\ last' = NoLast
  /\ lastcall' = NoCall
  /\ UNCHANGED <<pan, origin, tstate, log, cbs>>

\* Go starting fn itself in the new goroutine, without Call
Go_NoCall(t) ==
  /\ CanOp(t)
  /\ tstate[2] = "idle"
  /\ stk' = [stk EXCEPT
               ![2] = <<NewFrame("user", "None", Nil, NoPanic)>>,
               ![t] = [@ EXCEPT ![Len(@)] = [Top(t) EXCEPT !.ops = @ + 1]]]
  /\ tstate' = [tstate EXCEPT ![2] = "run"]
  /\ nops' = nops + 1
  /\ last' = NoLast
  /\ lastcall' = [NoCall EXCEPT !.t = t, !.op = Op("Go", Nil, TRUE, <<>>)]
  /\ UNCHANGED <<pan, origin, log, cbs>>

\* func Go(fn func()): go Call(fn)
Go(t) ==
  /\ CanOp(t)
  /\ tstate[2] = "idle"
  /\ stk' = [stk EXCEPT
               ![2] = <<NewFrame("Call", "Catch", Nil, NoPanic),
                        NewFrame("user", "None", Nil, NoPanic)>>,
               ![t] = [@ EXCEPT ![Len(@)] = [Top(t) EXCEPT !.ops = @ + 1]]]
  /\ tstate' = [tstate EXCEPT ![2] = "run"]
  /\ nops' = nops + 1
  /\ last' = NoLast
  /\ lastcall' = [NoCall EXCEPT !.t = t, !.op = Op("Go", Nil, TRUE, <<>>)]
  /\ UNCHANGED <<pan, origin, log, cbs>>

\* the body reaches its return statement (Call: after fn() returned)
Return(t) ==
  /\ tstate[t] = "run"
  /\ Len(stk[t]) > 0
  /\ Top(t).pc = "body"
  /\ Top(t).fn = "Call" => Top(t).ops >= 1
  /\ stk' = SetTop(t, [Top(t) EXCEPT !.pc = "exit"])
  /\ last' = NoLast
  /\ lastcall' = NoCall
  /\ UNCHANGED <<pan, origin, tstate, log, cbs, nops>>

\* the function's deferred call is due
AtExit(t, hs) ==
  /\ tstate[t] = "run"
  /\ Len(stk[t]) > 0
  /\ Top(t).pc = "exit"
  /\ Top(t).helper \in hs

\* what a call appended to a record (the log, the callbacks' calls)
Emitted(old, new) == SubSeq(new, Len(old) + 1, Len(new))

\* the deferred call of goroutine t's innermost function is over, leaving
\* slot2 in the slot, log2 as the log, cbs2 as the callbacks' calls and pan2
\* in flight
AfterDeferred(t, slot2, log2, cbs2, pan2) ==
  /\ stk' = SetTop(t, [Top(t) EXCEPT !.pc = "ret", !.seen = pan[t],
                                     !.seenOp = origin[t], !.slot = slot2,
                                     !.logged = Emitted(log, log2),
                                     !.called = Emitted(cbs, cbs2)])
  /\ log' = log2
  /\ cbs' = cbs2
  /\ pan' = [pan EXCEPT ![t] = pan2]
  /\ origin' = [origin EXCEPT ![t] =
       IF pan2 = NoPanic THEN NoOp ELSE Op("deferred", pan2, TRUE, <<>>)]
  /\ last' = NoLast
  /\ lastcall' = NoCall
  /\ UNCHANGED <<tstate, nops>>

\* Catch without the return that ends its err == nil branch: it goes on to
\* assign through the nil pointer
Catch_NoReturn(t) ==
  /\ AtExit(t, {"Catch", "CatchNil"})
  /\ LET rec == recover(pan[t])
     IN  IF rec # Nil
         THEN IF Top(t).helper = "CatchNil"
              THEN AfterDeferred(t, Top(t).slot, Append(log, <<"Panic: ", rec>>),
                                 cbs, ErrVal("nil pointer dereference"))
              ELSE AfterDeferred(t, joinErrors(Top(t).slot, toError(rec)), log,
                                 cbs, NoPanic)
         ELSE AfterDeferred(t, Top(t).slot, log, cbs, NoPanic)

\* Catch without its r != nil test
Catch_NoNilCheck(t) ==
  /\ AtExit(t, {"Catch", "CatchNil"})
  /\ LET rec == recover(pan[t])
     IN  IF Top(t).helper = "CatchNil"
         THEN AfterDeferred(t, Top(t).slot, Append(log, <<"Panic: ", rec>>),
                            cbs, NoPanic)
         ELSE AfterDeferred(t, joinErrors(Top(t).slot, toError(rec)), log,
                            cbs, NoPanic)

\* Catch that records the panic and then raises it again
Catch_Rethrow(t) ==
  /\ AtExit(t, {"Catch", "CatchNil"})
  /\ LET rec == recover(pan[t])
     IN  IF rec # Nil
         THEN IF Top(t).helper = "CatchNil"
              THEN AfterDeferred(t, Top(t).slot, Append(log, <<"Panic: ", rec>>),
                                 cbs, rec)
              ELSE AfterDeferred(t, joinErrors(Top(t).slot, toError(rec)), log,
                                 cbs, rec)
         ELSE AfterDeferred(t, Top(t).slot, log, cbs, NoPanic)

\* func Catch(err *error), run as the deferred call
Catch(t) ==
  /\ AtExit(t, {"Catch", "CatchNil"})
  /\ LET rec == recover(pan[t])
     IN  IF rec # Nil
         THEN IF Top(t).helper = "CatchNil"
              THEN AfterDeferred(t, Top(t).slot, Append(log, <<"Panic: ", rec>>),
                                 cbs, NoPanic)
              ELSE AfterDeferred(t, joinErrors(Top(t).slot, toError(rec)), log,
                                 cbs, NoPanic)
         ELSE AfterDeferred(t, Top(t).slot, log, cbs, NoPanic)

\* Handle that also stops a panic of its callback
Handle_SwallowsCallback(t) ==
  /\ AtExit(t, {"Handle"})
  /\ LET rec == recover(pan[t])
     IN  IF rec # Nil
         THEN AfterDeferred(t, Top(t).slot, log, Append(cbs, toError(rec)),
                            NoPanic)
         ELSE AfterDeferred(t, Top(t).slot, log, cbs, NoPanic)

\* func Handle(fn func(err error)), run as the deferred call; the callback
\* returns or panics
Handle(t) ==
  /\ AtExit(t, {"Handle"})
  /\ LET rec == recover(pan[t])
     IN  IF rec # Nil
         THEN AfterDeferred(t, Top(t).slot, log, Append(cbs, toError(rec)),
                            IF Top(t).cb = NoPanic THEN NoPanic
                            ELSE gopanic(Top(t).cb))
         ELSE AfterDeferred(t, Top(t).slot, log, cbs, NoPanic)

\* Mute that does not call recover
Mute_NoRecover(t) ==
  /\ AtExit(t, {"Mute"})
  /\ AfterDeferred(t, Top(t).slot, log, cbs, pan[t])

\* func Mute(), run as the deferred call: recover() ends the panic in
\* flight, if any, and its result is dropped
Mute(t) ==
  /\ AtExit(t, {"Mute"})
  /\ AfterDeferred(t, Top(t).slot, log, cbs, NoPanic)

\* the function's activation ends: it returns its result to its caller, or
\* the panic still in flight goes on unwinding in the caller
Leave(t) ==
  /\ tstate[t] = "run"
  /\ Len(stk[t]) > 0
  /\ \/ Top(t).pc = "ret"
     \/ Top(t).pc = "exit" /\ Top(t).helper = "None"
  /\ LET f    == Top(t)
         rest == SubSeq(stk[t], 1, Len(stk[t]) - 1)
     IN  /\ last' = [t |-> t, f |-> f, escaped |-> pan[t],
                     depth |-> Len(stk[t])]
         /\ IF rest = <<>>
            THEN /\ stk' = [stk EXCEPT ![t] = rest]
                 /\ tstate' = [tstate EXCEPT ![t] =
                      IF pan[t] = NoPanic THEN "returned" ELSE "panicked"]
            ELSE /\ tstate' = tstate
                 /\ stk' = [stk EXCEPT ![t] =
                      [rest EXCEPT ![Len(rest)] =
                         IF pan[t] = NoPanic
                         THEN [@ EXCEPT !.ops = @ + 1]
                         ELSE [@ EXCEPT !.pc = "exit"]]]
  /\ lastcall' = NoCall
  /\ UNCHANGED <<pan, origin, log, cbs, nops>>

\* one step of client goroutine t
ClientStep(t) ==
  /\ \/ \E e \in ErrArgs : OK(t, e)
     \/ \E e \in ErrArgs : Check(t, e)
     \/ \E v \in Values1, e \in ErrArgs : Val1(t, v, e)
     \/ \E v \in Values2, e \in ErrArgs : Val2(t, v, e)
     \/ \E v \in Values3, e \in ErrArgs : Val3(t, v, e)
     \/ \E v \in Values1, e \in ErrArgs : SafeVal(t, v, e)
     \/ \E v \in Values2, e \in ErrArgs : SafeVal2(t, v, e)
     \/ \E v \in Values3, e \in ErrArgs : SafeVal3(t, v, e)
     \/ \E b \in BOOLEAN, p \in Payloads : Require(t, b, p)
     \/ \E p \in Payloads : Panic(t, p)
     \/ \E d \in Deferrables : Enter(t, d)
     \/ CallEnter(t)
     \/ Go(t)
     \/ Return(t)
     \/ Catch(t)
     \/ Handle(t)
     \/ Mute(t)
     \/ Leave(t)
  /\ UNCHANGED avars

NextClient == \E t \in T : ClientStep(t)

\* client code running on one goroutine, and on a second once Go is called
ClientInit == IdleAsync /\ InitFrames

ClientSpec == ClientInit /\ [][NextClient]_vars

\* ------------------------------------------------------ specifications
\* a call of Async
Init == InitAsync(MaxN) /\ IdleFrames

Next == NextAsync

Spec == Init /\ [][Next]_vars

\* go statements start goroutines the runtime schedules fairly: the caller
\* and every spawned goroutine keep taking their enabled steps
InitLive == InitAsync(MaxLiveN) /\ IdleFrames

LiveSpec ==
  /\ InitLive
  /\ [][Next]_vars
  /\ WF_vars(AsyncStep)
  /\ \A i \in 1..MaxLiveN : WF_vars(i \in G /\ GoStep(i))

\* ------------------------------------------------ properties of Async
Returned == apc = "returned"

\* the functions of the argument list that panic
Panicked == {i \in G : fns[i] # NoPanic}

K == Cardinality(Panicked)

\* the error Async is to capture for a panic payload p: p itself when it
\* is an error, the runtime's error for panic(nil), else a new error that
\* carries p's string form
Captured(p) ==
  CASE p.kind = "nil"    -> PanicNilError
    [] p.kind = "string" -> Val("errorString", p.s, 0, <<>>)
    [] p.kind = "int"    -> Val("errorString", Itoa(p.n), 0, <<>>)
    [] OTHER             -> p

\* all orderings of a finite set
RECURSIVE Orderings(_)
Orderings(S) ==
  IF S = {} THEN {<<>>}
  ELSE UNION { {Append(o, x) : o \in Orderings(S \ {x})} : x \in S }

\* the left-nested chain of two-component joins over the captured errors
\* of goroutines o[1], o[2], ...
RECURSIVE Chained(_)
Chained(o) ==
  IF Len(o) = 0 THEN Nil
  ELSE IF Len(o) = 1 THEN Captured(fns[o[1]])
  ELSE Val("joinError", "", 0,
           <<Chained(SubSeq(o, 1, Len(o) - 1)), Captured(fns[o[Len(o)]])>>)

\* the number of errors e directly holds; an error that is not a join
\* counts as its own single component
ComponentCount(e) ==
  IF e = Nil THEN 0
  ELSE IF e.kind = "joinError" THEN Len(e.kids)
  ELSE 1

SeqToSet(q) == {q[k] : k \in 1..Len(q)}

\* C1 (as stated): Async with K >= 1 panicking functions returns a non-nil
\* combined error that directly holds exactly K components.
C1_Original ==
  (Returned /\ K >= 1) => (result # Nil /\ ComponentCount(result) = K)

\* C1 (amended): Async with K >= 1 panicking functions returns a non-nil
\* error that is the left-nested chain of two-component joins over the K
\* captured errors in some order: the captured error itself for K = 1, and
\* for K >= 2 a join directly holding exactly two components, the chain of
\* the first K-1 errors and the K-th error.
C1_NestedJoin ==
  (Returned /\ K >= 1) =>
    /\ result # Nil
    /\ \E o \in Orderings(Panicked) : result = Chained(o)
    /\ ComponentCount(result) = (IF K = 1 THEN 1 ELSE 2)

C1_Witness == Returned /\ K >= 3 /\ Len(JoinLeaves(result)) = K

\* C2: Async returns nil exactly when no function panicked; otherwise the
\* captured error of every panicking function is contained in the returned
\* error, each once, and nothing else is.
C2_NoFailureLost ==
  Returned =>
    /\ (result = Nil) <=> (K = 0)
    /\ \A i \in Panicked : Captured(fns[i]) \in Chain(result)
    /\ SeqToSet(JoinLeaves(result)) = {Captured(fns[i]) : i \in Panicked}
    /\ Len(JoinLeaves(result)) = K

C2_Witness ==
  /\ Returned
  /\ K >= 2
  /\ K < N
  /\ \A i \in Panicked : Captured(fns[i]) \in Chain(result)

\* C3: once Async has returned, every spawned goroutine has finished: its
\* function completed or its panic was recovered, and the number of
\* goroutines that signalled completion is N.
C3_JoinBarrier ==
  (apc \in {"return", "returned"}) =>
    /\ \A i \in G : gpc[i] = "exited" /\ inflight[i] = NoPanic
    /\ Len(finishOrder) = N
    /\ SeqToSet(finishOrder) = G
    /\ ~crashed

C3_Witness == Returned /\ N >= 2 /\ Len(finishOrder) = N

\* C4: under fair scheduling Async eventually returns, for every number of
\* functions and every subset of panicking ones; when it has returned no
\* goroutine is running and the mutex is free, and with no functions it
\* returns nil having spawned and awaited no goroutine.
C4_Terminates ==
  /\ <>Returned
  /\ [](Returned => (mxErr = 0 /\ wg = 0 /\ \A i \in G : gpc[i] = "exited"))
  /\ []((Returned /\ N = 0) => (result = Nil /\ finishOrder = <<>>))

C4_Witness == Returned /\ mxErr = 0 /\ wg = 0 /\ K = N /\ N >= 1

\* ------------------------------------- properties of the client helpers
\* the activation that has just ended left through its deferred call
Ended == last.f.pc = "ret"

\* the activation that has just ended returned normally: no panic left it
\* and its caller (if the model has it) is back in its body
ReturnedNormally ==
  /\ last.escaped = NoPanic
  /\ IF last.depth = 1 THEN tstate[last.t] = "returned"
     ELSE stk[last.t][last.depth - 1].pc = "body"

\* the non-nil error a call of a checked helper was given to propagate
\* (Nil: the call is no such call)
Propagated(op) ==
  IF op.name \in {"OK", "Check", "Val", "Val2", "Val3"} THEN op.e
  ELSE IF op.name = "Require" /\ ~op.b /\ IsError(op.e) THEN op.e
  ELSE Nil

\* C5: when a function that deferred Catch(&err) passes a non-nil error e
\* to OK, Check, Val, Val2, Val3 or Require(false, e), it returns normally
\* and the unwrap chain of the slot's error contains e, whether the slot was
\* empty or held another error.
C5_RoundTrip ==
  (Ended /\ last.f.helper = "Catch" /\ Propagated(last.f.seenOp) # Nil) =>
    /\ ReturnedNormally
    /\ Propagated(last.f.seenOp) \in Chain(last.f.slot)

C5_Witness ==
  /\ Ended
  /\ last.f.helper = "Catch"
  /\ last.f.slot0 # Nil
  /\ last.f.seenOp.name = "Val3"
  /\ last.f.seenOp.e \in Chain(last.f.slot)

\* C6: when a deferred Catch(&err) intercepts a panic, the slot afterwards
\* holds the normalized new error alone if it was nil, else a combined error
\* whose two components are the previous slot error and the new error, and
\* the function returns normally.
C6_CatchMerges ==
  (Ended /\ last.f.helper = "Catch" /\ last.f.seen # NoPanic) =>
    /\ ReturnedNormally
    /\ IF last.f.slot0 = Nil
       THEN last.f.slot = Captured(last.f.seen)
       ELSE /\ last.f.slot.kind = "joinError"
            /\ Components(last.f.slot) = <<last.f.slot0, Captured(last.f.seen)>>

C6_Witness ==
  /\ Ended
  /\ last.f.helper = "Catch"
  /\ last.f.seen # NoPanic
  /\ last.f.slot0 # Nil
  /\ Len(Components(last.f.slot)) = 2

\* C7: a deferred Catch(nil) that runs while a panic is in flight stops it,
\* writes exactly one log entry and raises nothing: the function returns
\* normally.
C7_CatchNilLogs ==
  (Ended /\ last.f.helper = "CatchNil" /\ last.f.seen # NoPanic) =>
    /\ ReturnedNormally
    /\ last.f.logged = << <<"Panic: ", last.f.seen>> >>

C7_Witness ==
  /\ Ended
  /\ last.f.helper = "CatchNil"
  /\ last.f.seen # NoPanic
  /\ Len(last.f.logged) = 1
  /\ last.escaped = NoPanic

\* C8: with no panic in flight, Catch (nil or non-nil slot) leaves the slot
\* as it was and logs nothing, Handle does not call its callback, Mute
\* changes nothing, and the function returns what it had set.
C8_NoPanicNoOp ==
  (Ended /\ last.f.seen = NoPanic
     /\ last.f.helper \in {"Catch", "CatchNil", "Handle", "Mute"}) =>
    /\ last.f.slot = last.f.slot0
    /\ last.f.logged = <<>>
    /\ last.f.called = <<>>
    /\ ReturnedNormally

C8_Witness ==
  /\ Ended
  /\ last.f.seen = NoPanic
  /\ last.f.helper = "Catch"
  /\ last.f.slot0 # Nil
  /\ last.f.slot = last.f.slot0

\* C9: no panic leaves Call; Call returns nil exactly when fn completed
\* normally, else the normalized payload: the payload itself when it is an
\* error, a new error carrying its string form when it is not.
C9_CallReturns ==
  (last.f.fn = "Call") =>
    /\ ReturnedNormally
    /\ (last.f.slot = Nil) <=> (last.f.seen = NoPanic)
    /\ (last.f.seen # NoPanic /\ IsError(last.f.seen)) =>
         last.f.slot = last.f.seen
    /\ (last.f.seen # NoPanic /\ ~IsError(last.f.seen)) =>
         last.f.slot = Captured(last.f.seen) /\ last.f.slot.kind = "errorString"

C9_Witness ==
  /\ last.f.fn = "Call"
  /\ last.f.seen = IntVal(42)
  /\ last.f.slot.s = "42"

\* C10: a function that deferred Mute and panics, with any payload, returns
\* normally: the panic does not leave it, no error is produced, no callback
\* is called and nothing is logged.
C10_MuteSuppresses ==
  (Ended /\ last.f.helper = "Mute" /\ last.f.seen # NoPanic) =>
    /\ ReturnedNormally
    /\ pan[last.t] = NoPanic
    /\ last.f.slot = last.f.slot0
    /\ last.f.logged = <<>>
    /\ last.f.called = <<>>

C10_Witness ==
  /\ Ended
  /\ last.f.helper = "Mute"
  /\ last.f.seen # NoPanic
  /\ last.escaped = NoPanic
  /\ last.depth = 1
  /\ tstate[1] = "returned"

\* the panic in flight has left the activation that has just ended and goes
\* on unwinding in its caller (or, with no caller, has left the goroutine)
Propagates(q) ==
  /\ last.escaped = q
  /\ pan[last.t] = q
  /\ IF last.depth = 1 THEN tstate[last.t] = "panicked"
     ELSE stk[last.t][last.depth - 1].pc = "exit"

\* C11: when a deferred Handle(fn) runs while a panic is in flight, fn is
\* called exactly once, with the normalized error; if fn returns the panic
\* is over and the function returns normally; if fn panics, Handle does not
\* intercept that panic and it propagates to the function's caller.
C11_HandleCallsBack ==
  (Ended /\ last.f.helper = "Handle" /\ last.f.seen # NoPanic) =>
    /\ last.f.called = <<Captured(last.f.seen)>>
    /\ IF last.f.cb = NoPanic THEN ReturnedNormally
       ELSE Propagates(gopanic(last.f.cb))

C11_Witness ==
  /\ Ended
  /\ last.f.helper = "Handle"
  /\ last.f.seen # NoPanic
  /\ last.f.cb # NoPanic
  /\ last.escaped = last.f.cb
  /\ Len(last.f.called) = 1

\* the call that has just been made returned to the body of its caller
CallReturned ==
  /\ lastcall.raised = NoPanic
  /\ pan[lastcall.t] = NoPanic
  /\ Top(lastcall.t).pc = "body"

\* C12: given a nil error OK and Check return without panicking, and Val,
\* Val2 and Val3 return their one, two or three values unchanged and in the
\* same positions.
C12_NilIsNoOp ==
  (lastcall.op.name \in {"OK", "Check", "Val", "Val2", "Val3"}
     /\ lastcall.op.e = Nil) =>
    /\ CallReturned
    /\ lastcall.out = lastcall.op.vs
    /\ Len(lastcall.out) =
         (CASE lastcall.op.name = "Val" -> 1 [] lastcall.op.name = "Val2" -> 2
            [] lastcall.op.name = "Val3" -> 3 [] OTHER -> 0)

C12_Witness ==
  /\ lastcall.op.name = "Val2"
  /\ lastcall.op.e = Nil
  /\ lastcall.out = <<StrVal("v"), IntVal(8)>>
  /\ CallReturned

\* what Require's payload p is as an error: p itself when it is an error,
\* else a new error whose message is p's string form
AsError(p) ==
  CASE p.kind = "nil"    -> Val("errorString", "<nil>", 0, <<>>)
    [] p.kind = "string" -> Val("errorString", p.s, 0, <<>>)
    [] p.kind = "int"    -> Val("errorString", Itoa(p.n), 0, <<>>)
    [] OTHER             -> p

Contains(msg, piece) == \E k \in 1..Len(msg) : msg[k] = piece

\* C13: Require(true, p) never panics; Require(false, p) always panics,
\* with p normalized to an error, so that a function that deferred
\* Catch(&err) and called Require(false, "x") returns with a slot error
\* whose message contains "x".
C13_Require ==
  /\ (lastcall.op.name = "Require" /\ lastcall.op.b) => CallReturned
  /\ (lastcall.op.name = "Require" /\ ~lastcall.op.b) =>
       /\ lastcall.raised # NoPanic
       /\ pan[lastcall.t] = lastcall.raised
       /\ AsError(lastcall.op.e) \in Chain(lastcall.raised)
       /\ Top(lastcall.t).pc = "exit"
  /\ (Ended /\ last.f.helper = "Catch" /\ last.f.seenOp.name = "Require") =>
       /\ ReturnedNormally
       /\ AsError(last.f.seenOp.e) \in Chain(last.f.slot)
       /\ Contains(Message(last.f.slot), AsError(last.f.seenOp.e).s)

C13_Witness ==
  /\ Ended
  /\ last.f.helper = "Catch"
  /\ last.f.slot0 # Nil
  /\ last.f.seenOp.name = "Require"
  /\ last.f.seenOp.e = StrVal("x")
  /\ Contains(Message(last.f.slot), "x")

\* C14: SafeVal, SafeVal2 and SafeVal3 never panic: for every error, nil or
\* not, they return their values unchanged, and afterwards the error is
\* nowhere: no panic is in flight, and the caller's slot, the log and the
\* callbacks' calls are as they were.
C14_SafeValDiscards ==
  /\ []((lastcall.op.name \in {"SafeVal", "SafeVal2", "SafeVal3"}) =>
          /\ CallReturned
          /\ lastcall.out = lastcall.op.vs
          /\ Top(lastcall.t).slot = Top(lastcall.t).slot0)
  /\ [][(lastcall'.op.name \in {"SafeVal", "SafeVal2", "SafeVal3"}) =>
          /\ pan' = pan
          /\ log' = log
          /\ cbs' = cbs
          /\ tstate' = tstate
          /\ \A t \in T : \A k \in 1..Len(stk[t]) :
               stk'[t][k].slot = stk[t][k].slot]_vars

C14_Witness ==
  /\ lastcall.op.name = "SafeVal3"
  /\ lastcall.op.e # Nil
  /\ lastcall.out = lastcall.op.vs
  /\ Len(lastcall.out) = 3
  /\ pan[lastcall.t] = NoPanic

\* the outermost function of the goroutine Go started has just ended
SpawnedEnded == last.t = 2 /\ last.depth = 1

\* C15: Go(fn) returns to its caller while the new goroutine is still to
\* run fn; a panic of fn is recovered inside that goroutine and never leaves
\* its outermost function, and the error is handed to no one: it is not
\* logged, no callback gets it, and the calling goroutine is left as it was.
C15_GoContained ==
  /\ [](tstate[2] # "panicked")
  /\ []((lastcall.op.name = "Go") =>
          /\ CallReturned
          /\ tstate[2] = "run"
          /\ Len(stk[2]) = 2
          /\ stk[2][1].fn = "Call" /\ stk[2][1].helper = "Catch")
  /\ [](SpawnedEnded =>
          /\ last.f.fn = "Call"
          /\ last.escaped = NoPanic
          /\ tstate[2] = "returned"
          /\ last.f.logged = <<>>
          /\ last.f.called = <<>>)
  /\ [][SpawnedEnded' =>
          /\ stk'[1] = stk[1]
          /\ pan'[1] = pan[1]
          /\ tstate'[1] = tstate[1]
          /\ log' = log
          /\ cbs' = cbs]_vars

C15_Witness ==
  /\ SpawnedEnded
  /\ tstate[2] = "returned"
  /\ last.f.seen # NoPanic
  /\ last.f.slot # Nil
  /\ tstate[1] = "run"

\* a recovery helper has run at the activation that has just ended while a
\* panic was in flight
Intercepted ==
  /\ Ended
  /\ last.f.helper \in {"Catch", "CatchNil", "Handle", "Mute"}
  /\ last.f.seen # NoPanic

\* C16 (as stated): once Catch, Handle or Mute has run at a frame during
\* unwinding, the frame returns normally to its caller and no panic leaves
\* the frame.
C16_Original == Intercepted => ReturnedNormally

\* C16 (amended): once Catch, Handle or Mute has run at a frame during
\* unwinding, the panic that was in flight is over at that frame; the frame
\* returns normally to its caller, except that when the helper is Handle
\* and its callback panics, the callback's panic, and only it, leaves the
\* frame.
C16_Suppressed ==
  Intercepted =>
    IF last.f.helper = "Handle" /\ last.f.cb # NoPanic
    THEN Propagates(gopanic(last.f.cb))
    ELSE ReturnedNormally

C16_Witness ==
  /\ Intercepted
  /\ last.f.helper = "Catch"
  /\ last.depth = 2
  /\ last.escaped = NoPanic
  /\ stk[last.t][1].pc = "body"

\* the goroutines of o whose function panicked, in o's order
FailedIn(o) == SelectSeq(o, LAMBDA i : i \in Panicked)

\* the captured errors of the goroutines o[1], o[2], ...
CapturedOf(o) == [k \in 1..Len(o) |-> Captured(fns[o[k]])]

\* C17 (as stated): in the error Async returns the captured failures appear
\* in the order in which their goroutines signalled completion (wg.Done).
C17_Original ==
  Returned => JoinLeaves(result) = CapturedOf(FailedIn(finishOrder))

\* C17 (amended): in the error Async returns the captured failures appear
\* in the order in which their goroutines merged them into the accumulator
\* while holding the mutex; that order can differ from the order in which
\* the goroutines signal completion.
C17_MergeOrder ==
  Returned =>
    /\ JoinLeaves(result) = CapturedOf(mergeOrder)
    /\ SeqToSet(mergeOrder) = Panicked
    /\ Len(mergeOrder) = K

C17_Witness ==
  /\ Returned
  /\ K >= 2
  /\ FailedIn(finishOrder) # mergeOrder
  /\ JoinLeaves(result) = CapturedOf(mergeOrder)

\* the call sites inside the library: the helpers' calls of checkErr, Call's
\* call of fn, and checkErr's call of runtime.Caller
LibSites == {LibSite(l) : l \in {13, 18, 23, 29, 35, 60, 90, 137}}

\* the call sites in client code
UserSites == {UserSite(d, l) : d \in 1..MaxDepth, l \in 1..(MaxOps + 1)}

\* a checked helper, called by the function now innermost on goroutine
\* lastcall.t, has just panicked
CheckedPanicked ==
  /\ lastcall.op.name \in {"OK", "Check", "Val", "Val2", "Val3", "Require"}
  /\ lastcall.raised # NoPanic

\* C18: the location a checked helper attaches to the error it panics with
\* is the line of the client code that called the helper, two frames above
\* checkErr, and never a line of the library; so it is for OK, Check, Val,
\* Val2, Val3 and for Require, and when the client code runs inside Call.
C18_CallSite ==
  CheckedPanicked =>
    /\ lastcall.raised.kind = "wrapError"
    /\ lastcall.raised.s =
         UserSite(Len(stk[lastcall.t]), Top(lastcall.t).ops + 1)
    /\ lastcall.raised.s = lastcall.site
    /\ lastcall.raised.s \in UserSites
    /\ lastcall.raised.s \notin LibSites
    /\ Message(lastcall.raised)[Len(Message(lastcall.raised))] = lastcall.site

C18_Witness ==
  /\ CheckedPanicked
  /\ lastcall.op.name = "Require"
  /\ Len(stk[lastcall.t]) = 3
  /\ stk[lastcall.t][2].fn = "Call"
  /\ lastcall.raised.s = UserSite(3, 1)

\* goroutine i is between its read and its write of the accumulator, or has
\* written and not yet unlocked
InMerge(i) == gpc[i] \in {"join", "store", "unlock"}

\* the caller is at or past its read of the accumulator
CallerReads == apc \in {"return", "returned"}

\* C19: every write of Async's accumulator is made by a goroutine that
\* holds the mutex and has not yet signalled completion (it unlocks before
\* its deferred wg.Done); at most one goroutine is inside the merge; and the
\* caller's read after the barrier is never concurrent with a write.
C19_MutexGuards ==
  /\ [](\A i \in G : InMerge(i) => mxErr = i)
  /\ [](Cardinality({i \in G : InMerge(i)}) <= 1)
  /\ [](\A i \in G : gpc[i] \in {"done", "exited"} =>
          /\ mxErr # i
          /\ i \in Panicked => i \in SeqToSet(mergeOrder))
  /\ [](CallerReads => \A i \in G : ~InMerge(i) /\ gpc[i] # "lock")
  /\ [][(err' # err \/ mergeOrder' # mergeOrder) =>
          /\ ~CallerReads
          /\ \E i \in G :
               /\ gpc[i] = "store" /\ gpc'[i] = "unlock"
               /\ mxErr = i
               /\ i \notin SeqToSet(finishOrder)]_vars

C19_Witness ==
  \E i, j \in G :
    /\ gpc[i] = "store"
    /\ mxErr = i
    /\ gpc[j] = "lock"
    /\ err # Nil

\* a panic has reached a protected activation (Call, or a function that
\* deferred Catch, Handle or Mute) that was called by another function, and
\* that activation has just ended
NestedIntercept ==
  /\ last.depth >= 2
  /\ last.f.fn = "Call" \/ last.f.helper # "None"
  /\ IF Ended THEN last.f.seen # NoPanic ELSE last.escaped # NoPanic

\* the functions below the activation that has just ended are untouched:
\* their slots are as they were, their deferred calls have not run, no panic
\* is in flight, and the caller goes on with its body after the call
OuterUntouched ==
  /\ ReturnedNormally
  /\ pan[last.t] = NoPanic
  /\ stk[last.t][last.depth - 1].ops >= 1
  /\ \A k \in 1..(last.depth - 1) :
       /\ stk[last.t][k].slot = stk[last.t][k].slot0
       /\ stk[last.t][k].seen = NoPanic
       /\ stk[last.t][k].logged = <<>>
       /\ stk[last.t][k].called = <<>>

\* a panic comes into flight on a goroutine only by a call that raises it
OnlyRaised ==
  \A t \in T :
    (pan[t] = NoPanic /\ pan'[t] # NoPanic) =>
      (lastcall'.t = t /\ lastcall'.raised = pan'[t])

\* C20 (as stated): when protected frames are nested and the inner function
\* panics, only the innermost protected frame intercepts: the outer frame's
\* slot is unchanged, its helper sees no panic, and the outer function goes
\* on after the inner call returns.
C20_Original == NestedIntercept => OuterUntouched

\* C20 (amended): as stated, except when the innermost protected frame
\* deferred Handle and its callback panics: the callback's panic is a new
\* one that unwinds into the outer frame.
C20_FrameScoped ==
  /\ [](NestedIntercept =>
          IF last.f.helper = "Handle" /\ last.f.cb # NoPanic
          THEN Propagates(gopanic(last.f.cb))
          ELSE OuterUntouched)
  /\ [][OnlyRaised]_vars

C20_Witness ==
  /\ NestedIntercept
  /\ last.depth = 2
  /\ last.f.fn = "Call"
  /\ last.f.slot # Nil
  /\ stk[last.t][1].helper = "Catch"
  /\ stk[last.t][1].slot0 # Nil
  /\ stk[last.t][1].slot = stk[last.t][1].slot0
  /\ stk[last.t][1].pc = "body"
====
